---- MODULE Spec2Model ----
\* A model of the scoped-event-log Log registry (class Log, LogEvent, LogTimestamp):
\* the event store, the console sink, the listener registry and the worker relay.
EXTENDS Integers, Sequences, FiniteSets

\* ---------------------------------------------------------------- bounds
\* Events successfully added in one behaviour (caps the event id counter).
MaxAdds == 3
\* Largest value of the wall clock (milliseconds since the model's start).
MaxClock == 2
\* Largest maxEvents value the configuration setter is given.
MaxLimit == 2
\* Messages in flight from one worker to its parent.
MaxQueue == 2
\* Times registerWorker is called for one worker handle.
MaxHandlers == 2
\* Events added while the console sink or the listener registry is exercised.
MaxNotified == 2
\* Calls of add made inside one worker.
MaxSent == 2

\* ---------------------------------------------------------------- values
\* JavaScript null (prevTimestamp, delta, owner) and undefined (a missing rank).
Null == -1
UndefinedRank == -2
\* maxEvents when no limit was set.
Unbounded == Null
NoOwner == "null"
NoExtra == "undefined"
NoLevel == "undefined"
ClearMessage == "__clear"
ClearScope == "Log"

\* Log.LEVELS
LEVELS == [DEBUG |-> 0, INFO |-> 1, WARN |-> 2, ERROR |-> 3, DISABLE |-> 4]
\* Object.keys(Log.LEVELS) / Object.entries(Log.LEVELS), in property order.
LevelKeys == <<"DEBUG", "INFO", "WARN", "ERROR", "DISABLE">>
LevelNames == {LevelKeys[i] : i \in 1..Len(LevelKeys)}
\* Log.LEVELS[level]: undefined for a name that is no key.
LevelRank(level) == IF level \in DOMAIN LEVELS THEN LEVELS[level] ELSE UndefinedRank

\* ---------------------------------------------------------------- inputs
ValidLevels == {"DEBUG", "INFO", "WARN", "ERROR"}
\* Level arguments callers pass: the five keys and one unrecognized name.
LevelArgs == LevelNames \cup {"FOOBAR"}
Scopes == {"s1", "s2"}
Messages == {"m1"}
Callbacks == {"cb1", "cb2"}
\* The callbacks whose body throws when invoked.
ThrowingCallbacks == {"cb2"}

VARIABLES
    events,          \* Log.events
    eventListeners,  \* Log.eventListeners
    prevTimestamp,   \* Log._prevTimestamp
    printThreshold,  \* Log.printThreshold
    maxEvents,       \* Log.maxEvents
    clock,           \* the wall clock read by new Date()
    workers,         \* Log.workers
    handlers,        \* per worker: message handlers attached by registerWorker
    chan,            \* per worker: messages posted to the parent, not yet delivered
    wlog,            \* per worker: the static state of the Log class loaded in the worker
    inbox,           \* per worker: messages the parent posted to the worker
    nextId,          \* history: events successfully added so far
    runAdds,         \* history: adds since the store was empty under the current limit, Null if not such a run
    sinceSet,        \* history: "unset", "set" (limit set, no add yet) or "added"
    op,              \* the last operation and its arguments
    out              \* what the last operation did: console calls, listener calls, raised,
                     \* returned count, whether an event left the store, returned array

vars == <<events, eventListeners, prevTimestamp, printThreshold, maxEvents, clock,
          workers, handlers, chan, wlog, inbox, nextId, runAdds, sinceSet, op, out>>

Workers == {"w1", "w2"}

\* ---------------------------------------------------------------- helpers
Min(a, b) == IF a < b THEN a ELSE b
\* Array.prototype.includes
Includes(arr, x) == \E i \in 1..Len(arr) : arr[i] = x
SpliceAndRotate(arr, i) == SubSeq(arr, i + 1, Len(arr)) \o SubSeq(arr, 1, i - 1)
\* Array.prototype.splice(i, 1), i counted from 1
Splice(arr, i) == SubSeq(arr, 1, i - 1) \o SubSeq(arr, i + 1, Len(arr))
\* JavaScript truthiness of a number | null
Truthy(x) == x # Null /\ x # 0

\* ---------------------------------------------------------------- LogTimestamp, LogEvent
LogTimestampAlwaysDelta(t, prev) == [date |-> t, delta |-> t - prev]
\* new LogTimestamp(): the date and the time elapsed since Log.prevTimestamp.
LogTimestamp(t, prev) == [date |-> t, delta |-> IF Truthy(prev) THEN t - prev ELSE Null]
ToTime(time) == time.date
\* The date-time components of a date: getUTCFullYear() .. getUTCSeconds() read the
\* point in time itself, getFullYear() .. getSeconds() read it shifted by the offset of
\* the local time zone.
UtcComponents(date) == [zone |-> "UTC", at |-> date]
LocalComponents(date, offset) == [zone |-> "local", at |-> date + offset]
\* `${Y}-${M}-${D} ${h}:${m}:${s}`: the text shows the components, not their time zone.
DateTimeText(components) == [format |-> "YYYY-MM-DD hh:mm:ss", shows |-> components.at]
\* LogTimestamp.toString(utc) in a time zone with the given offset
ToString(time, utc, offset) ==
    IF utc THEN DateTimeText(LocalComponents(time.date, offset))
    ELSE DateTimeText(UtcComponents(time.date))
\* The time zones a process can run in, as offsets from UTC.
ZoneOffsets == {-1, 0, 1}
\* new LogEvent(level, message, scope, extra)
LogEvent(level, message, scope, extra, t, prev, id) ==
    [id |-> id, level |-> level, message |-> message, scope |-> scope, extra |-> extra,
     time |-> LogTimestamp(t, prev)]

\* ---------------------------------------------------------------- level checks
IsValidLevelNoDisable(level) == level \in LevelNames
IsValidLevelAny(level) == level # "DISABLE"
\* Object.keys(Log.LEVELS).includes(level) && level !== 'DISABLE'
IsValidLevel(level) == level \in LevelNames /\ level # "DISABLE"

ShouldPrintStrict(rank, threshold) == rank > threshold
\* Log.LEVELS[level] >= Log.printThreshold
ShouldPrint(rank, threshold) == rank # UndefinedRank /\ rank >= threshold

\* Log.print: the console channel the event is written to.
PrintEvent(logEvent) ==
    IF logEvent.level = LEVELS.DEBUG THEN <<"debug">>
    ELSE IF logEvent.level = LEVELS.INFO THEN <<"info">>
    ELSE IF logEvent.level = LEVELS.WARN THEN <<"warn">>
    ELSE IF logEvent.level = LEVELS.ERROR THEN <<"error">>
    ELSE <<>>

\* ---------------------------------------------------------------- event store
PushFront(evs, logEvent) == <<logEvent>> \o evs
\* Log.events.push(logEvent)
Push(evs, logEvent) == Append(evs, logEvent)

EvictOne(evs, limit) ==
    IF limit # Unbounded /\ Len(evs) > limit THEN Tail(evs) ELSE evs
EvictNewest(evs, limit) ==
    IF limit # Unbounded /\ Len(evs) > limit THEN SubSeq(evs, 1, limit) ELSE evs
\* Eviction on insert: the oldest records go first until the length is within maxEvents.
Evict(evs, limit) ==
    IF limit # Unbounded /\ Len(evs) > limit
    THEN SubSeq(evs, Len(evs) - limit + 1, Len(evs))
    ELSE evs

\* getScopeEvents(scope)
RECURSIVE GetScopeEventsFrom(_, _, _)
GetScopeEventsFrom(evs, i, scope) ==
    IF i > Len(evs) THEN <<>>
    ELSE (IF evs[i].scope = scope THEN <<evs[i]>> ELSE <<>>)
         \o GetScopeEventsFrom(evs, i + 1, scope)
GetScopeEvents(evs, scope) == GetScopeEventsFrom(evs, 1, scope)
\* getAllEvents()
GetAllEvents(evs) == evs

\* Log.events.filter(e => e.level <cmp> refLevel), from index i on; a comparison with an
\* undefined refLevel is false.
RECURSIVE FilterByLevelFrom(_, _, _, _)
FilterByLevelFrom(evs, i, cmp, refLevel) ==
    IF i > Len(evs) THEN <<>>
    ELSE LET e == evs[i]
             keep == /\ refLevel # UndefinedRank
                     /\ CASE cmp = "===" -> e.level = refLevel
                          [] cmp = ">=" -> e.level >= refLevel
                          [] cmp = "<=" -> e.level <= refLevel
         IN (IF keep THEN <<e>> ELSE <<>>) \o FilterByLevelFrom(evs, i + 1, cmp, refLevel)

\* getAllEventsAtLevel(level)
GetAllEventsAtLevelOf(evs, level) == FilterByLevelFrom(evs, 1, "===", LevelRank(level))
GetAllEventsAboveLevel(evs, level) ==
    LET Above(e) == e.level > LevelRank(level) IN SelectSeq(evs, Above)
\* getAllEventsAtOrAboveLevel(level)
GetAllEventsAtOrAboveLevelOf(evs, level) == FilterByLevelFrom(evs, 1, ">=", LevelRank(level))
\* getAllEventsAtOrBelowLevel(level)
GetAllEventsAtOrBelowLevelOf(evs, level) == FilterByLevelFrom(evs, 1, "<=", LevelRank(level))

\* The plain object exportToJson makes of an event.
ToPlainObject(e) ==
    [level |-> e.level, message |-> e.message, scope |-> e.scope, time |-> e.time.date]
\* JSON text of a value: a numeral for a number, a quoted text for a string.
JsonNumber(n) == [json |-> "number", digits |-> n]
JsonString(text) == [json |-> "string", chars |-> text]
\* JSON.stringify of an array of plain objects: per element, the text of each property.
JsonStringify(objects) ==
    [k \in 1..Len(objects) |->
        [level |-> JsonNumber(objects[k].level), message |-> JsonString(objects[k].message),
         scope |-> JsonString(objects[k].scope), time |-> JsonNumber(objects[k].time)]]
\* JSON.parse of one value text and of the text of an array of objects
JsonValue(text) == IF text.json = "number" THEN text.digits ELSE text.chars
JsonParse(text) ==
    [k \in 1..Len(text) |->
        [level |-> JsonValue(text[k].level), message |-> JsonValue(text[k].message),
         scope |-> JsonValue(text[k].scope), time |-> JsonValue(text[k].time)]]

ExportAllLevels(evs, level) ==
    JsonStringify([k \in 1..Len(evs) |-> ToPlainObject(evs[k])])
\* exportToJson(level)
ExportToJsonOf(evs, level) ==
    LET chosen == IF level # NoLevel THEN GetAllEventsAtLevelOf(evs, level) ELSE evs
    IN JsonStringify([k \in 1..Len(chosen) |-> ToPlainObject(chosen[k])])

\* ---------------------------------------------------------------- listener registry
\* Whether invoking the callback raises.
Throws(listener) == listener \in ThrowingCallbacks

\* What the store holds at the moment a callback runs: the events and the last timestamp.
Seen(evs, prev) == [events |-> evs, prevTimestamp |-> prev]

\* One call evt.listener(level, event), with what the callback finds in the store.
Invocation(listener, level, event, seen) ==
    [listener |-> listener, level |-> level, message |-> event.message, id |-> event.id,
     store |-> [i \in 1..Len(seen.events) |-> seen.events[i].id],
     prev |-> seen.prevTimestamp]

\* callEventListeners(level, event), from index i on. A callback that throws ends the
\* loop: the exception leaves callEventListeners before the single-listener splice.
RECURSIVE CallEventListenersFrom(_, _, _, _, _, _)
CallEventListenersFrom(regs, i, level, event, seen, acc) ==
    IF i > Len(regs) THEN [listeners |-> regs, calls |-> acc, threw |-> FALSE]
    ELSE LET evt == regs[i] IN
         IF Includes(evt.levels, level)
         THEN LET acc2 == Append(acc, Invocation(evt.listener, level, event, seen)) IN
              IF Throws(evt.listener)
              THEN [listeners |-> regs, calls |-> acc2, threw |-> TRUE]
              ELSE IF evt.single
                   THEN CallEventListenersFrom(Splice(regs, i), i, level, event, seen, acc2)
                   ELSE CallEventListenersFrom(regs, i + 1, level, event, seen, acc2)
         ELSE CallEventListenersFrom(regs, i + 1, level, event, seen, acc)
CallEventListeners(regs, level, event, seen) ==
    CallEventListenersFrom(regs, 1, level, event, seen, <<>>)

\* ---------------------------------------------------------------- Log.add
NoOutput == [console |-> <<>>, calls |-> <<>>, threw |-> FALSE, returned |-> Null,
             removed |-> FALSE, result |-> <<>>]

\* The state of one Log context an operation works on.
Ctx == [events |-> events, eventListeners |-> eventListeners,
        prevTimestamp |-> prevTimestamp, nextId |-> nextId, out |-> NoOutput]

\* Log.add past the worker check, in a context with the given print threshold and size
\* limit, at clock reading t.
AddIn(st, threshold, limit, level, message, scope, extra, t) ==
    IF ~IsValidLevel(level)
    THEN [st EXCEPT !.out.console = Append(@, "warn")]
    ELSE LET logEvent == LogEvent(LevelRank(level), message, scope, extra, t,
                                  st.prevTimestamp, st.nextId + 1)
             printed == IF ShouldPrint(LevelRank(level), threshold)
                        THEN PrintEvent(logEvent) ELSE <<>>
             stored == Evict(Push(st.events, logEvent), limit)
             r == CallEventListeners(st.eventListeners, level, logEvent,
                                     Seen(stored, ToTime(logEvent.time)))
         IN [st EXCEPT !.events = stored,
                       !.prevTimestamp = ToTime(logEvent.time),
                       !.nextId = @ + 1,
                       !.eventListeners = r.listeners,
                       !.out.console = @ \o printed,
                       !.out.calls = @ \o r.calls,
                       !.out.threw = @ \/ r.threw]

\* Log.add in the parent context, which stores locally.
AddLocal(st, level, message, scope, extra, t) ==
    AddIn(st, printThreshold, maxEvents, level, message, scope, extra, t)

\* ---------------------------------------------------------------- removal
RECURSIVE RemoveAtLevelSkipping(_, _, _)
RemoveAtLevelSkipping(evs, i, rank) ==
    IF i > Len(evs) THEN evs
    ELSE IF evs[i].level = rank
         THEN RemoveAtLevelSkipping(Splice(evs, i), i + 1, rank)
         ELSE RemoveAtLevelSkipping(evs, i + 1, rank)

\* for (i...) if (<condition>) { Log.events.splice(i, 1); i-- }
RECURSIVE RemoveAtLevelFrom(_, _, _)
RemoveAtLevelFrom(evs, i, rank) ==
    IF i > Len(evs) THEN evs
    ELSE IF evs[i].level = rank
         THEN RemoveAtLevelFrom(Splice(evs, i), i, rank)
         ELSE RemoveAtLevelFrom(evs, i + 1, rank)

RECURSIVE RemoveBelowLevelFrom(_, _, _)
RemoveBelowLevelFrom(evs, i, rank) ==
    IF i > Len(evs) THEN evs
    ELSE IF evs[i].level < rank
         THEN RemoveBelowLevelFrom(Splice(evs, i), i, rank)
         ELSE RemoveBelowLevelFrom(evs, i + 1, rank)

RECURSIVE RemoveScopeFrom(_, _, _)
RemoveScopeFrom(evs, i, scope) ==
    IF i > Len(evs) THEN evs
    ELSE IF evs[i].scope = scope
         THEN RemoveScopeFrom(Splice(evs, i), i, scope)
         ELSE RemoveScopeFrom(evs, i + 1, scope)

RemoveAtLevelAnyScope(evs, i, scope, rank) == RemoveAtLevelFrom(evs, i, rank)

RECURSIVE RemoveScopeAtLevelFrom(_, _, _, _)
RemoveScopeAtLevelFrom(evs, i, scope, rank) ==
    IF i > Len(evs) THEN evs
    ELSE IF evs[i].scope = scope /\ evs[i].level = rank
         THEN RemoveScopeAtLevelFrom(Splice(evs, i), i, scope, rank)
         ELSE RemoveScopeAtLevelFrom(evs, i + 1, scope, rank)

RECURSIVE RemoveScopeBelowLevelFrom(_, _, _, _)
RemoveScopeBelowLevelFrom(evs, i, scope, rank) ==
    IF i > Len(evs) THEN evs
    ELSE IF evs[i].scope = scope /\ evs[i].level < rank
         THEN RemoveScopeBelowLevelFrom(Splice(evs, i), i, scope, rank)
         ELSE RemoveScopeBelowLevelFrom(evs, i + 1, scope, rank)

\* Cleared notifications for the level names names[k..], in order: each a new
\* LogEvent(rank, '__clear', 'Log') handed to callEventListeners. A callback that
\* throws ends the whole operation.
RECURSIVE NotifyCleared(_, _, _, _)
NotifyCleared(st, names, k, t) ==
    IF k > Len(names) \/ st.out.threw THEN st
    ELSE LET clearEvent == LogEvent(LevelRank(names[k]), ClearMessage, ClearScope, NoExtra,
                                    t, st.prevTimestamp, 0)
             r == CallEventListeners(st.eventListeners, names[k], clearEvent,
                                     Seen(st.events, st.prevTimestamp))
         IN NotifyCleared([st EXCEPT !.eventListeners = r.listeners,
                                     !.out.calls = @ \o r.calls,
                                     !.out.threw = r.threw],
                          names, k + 1, t)

\* The level names of Object.entries(Log.LEVELS) with a rank below the given one.
RECURSIVE LevelsBelowFrom(_, _)
LevelsBelowFrom(k, rank) ==
    IF k > Len(LevelKeys) THEN <<>>
    ELSE (IF LEVELS[LevelKeys[k]] < rank THEN <<LevelKeys[k]>> ELSE <<>>)
         \o LevelsBelowFrom(k + 1, rank)
LevelsBelow(rank) == LevelsBelowFrom(1, rank)

Warned(st) == [st EXCEPT !.out.console = Append(@, "warn")]

ClearAfterNotifying(st, t) ==
    [NotifyCleared(st, <<"DEBUG", "INFO", "WARN", "ERROR">>, 1, t) EXCEPT !.events = <<>>]
ClearKeepingEvents(st, t) ==
    NotifyCleared(st, <<"DEBUG", "INFO", "WARN", "ERROR">>, 1, t)
\* Log.clear()
ClearLog(st, t) ==
    NotifyCleared([st EXCEPT !.events = <<>>], <<"DEBUG", "INFO", "WARN", "ERROR">>, 1, t)

RemoveEventsAtLevelNotifying(st, level) ==
    IF ~IsValidLevel(level) THEN Warned(st)
    ELSE NotifyCleared([st EXCEPT !.events = RemoveAtLevelFrom(@, 1, LevelRank(level))],
                       <<level>>, 1, clock)
\* Log.removeEventsAtLevel(level)
RemoveEventsAtLevelOf(st, level) ==
    IF ~IsValidLevel(level) THEN Warned(st)
    ELSE [st EXCEPT !.events = RemoveAtLevelFrom(@, 1, LevelRank(level))]

\* Log.removeEventsBelowLevel(level)
RemoveEventsBelowLevelOf(st, level) ==
    IF ~IsValidLevel(level) THEN Warned(st)
    ELSE [st EXCEPT !.events = RemoveBelowLevelFrom(@, 1, LevelRank(level))]

\* Log.removeScopeEvents(scope)
RemoveScopeEventsOf(st, scope) ==
    [st EXCEPT !.events = RemoveScopeFrom(@, 1, scope)]

\* Log.removeScopeEventsAtLevel(scope, level)
RemoveScopeEventsAtLevelOf(st, scope, level, t) ==
    IF ~IsValidLevel(level) THEN Warned(st)
    ELSE NotifyCleared([st EXCEPT !.events = RemoveScopeAtLevelFrom(@, 1, scope, LevelRank(level))],
                       <<level>>, 1, t)

RemoveScopeEventsBelowLevelUnchecked(st, scope, level, t) ==
    NotifyCleared([st EXCEPT !.events = RemoveScopeBelowLevelFrom(@, 1, scope, LevelRank(level))],
                  LevelsBelow(LevelRank(level)), 1, t)
\* Log.removeScopeEventsBelowLevel(scope, level)
RemoveScopeEventsBelowLevelOf(st, scope, level, t) ==
    IF ~IsValidLevel(level) THEN Warned(st)
    ELSE NotifyCleared([st EXCEPT !.events = RemoveScopeBelowLevelFrom(@, 1, scope, LevelRank(level))],
                       LevelsBelow(LevelRank(level)), 1, t)

\* ---------------------------------------------------------------- listener operations
\* for (const lvl of level) if (!ext.levels.includes(lvl)) ext.levels.push(lvl)
RECURSIVE MergeLevels(_, _, _)
MergeLevels(extLevels, level, k) ==
    IF k > Len(level) THEN extLevels
    ELSE MergeLevels(IF Includes(extLevels, level[k]) THEN extLevels
                     ELSE Append(extLevels, level[k]),
                     level, k + 1)

\* The index of the first subscription of the listener, 0 if there is none.
RECURSIVE IndexOfListener(_, _, _)
IndexOfListener(regs, i, listener) ==
    IF i > Len(regs) THEN 0
    ELSE IF regs[i].listener = listener THEN i
    ELSE IndexOfListener(regs, i + 1, listener)

AlwaysPushListener(regs, level, listener, owner, singleEvent) ==
    Append(regs, [owner |-> owner, levels |-> level, listener |-> listener,
                  single |-> singleEvent])
\* Log.addEventListener(level, listener, owner, singleEvent), level already an array
AddEventListenerTo(regs, level, listener, owner, singleEvent) ==
    LET i == IndexOfListener(regs, 1, listener) IN
    IF i # 0
    THEN [regs EXCEPT ![i].levels = MergeLevels(@, level, 1)]
    ELSE Append(regs, [owner |-> owner, levels |-> level, listener |-> listener,
                       single |-> singleEvent])

\* !owner
NoOwnerGiven(owner) == owner = NoOwner \/ owner = ""

RECURSIVE SumLevels(_, _)
SumLevels(regs, i) ==
    IF i > Len(regs) THEN 0 ELSE Len(regs[i].levels) + SumLevels(regs, i + 1)

RECURSIVE RemoveOwnerFrom(_, _, _, _)
RemoveOwnerFrom(regs, i, owner, rmCount) ==
    IF i > Len(regs) THEN [listeners |-> regs, rmCount |-> rmCount]
    ELSE IF regs[i].owner = owner
         THEN RemoveOwnerFrom(Splice(regs, i), i, owner, rmCount + Len(regs[i].levels))
         ELSE RemoveOwnerFrom(regs, i + 1, owner, rmCount)

RemoveAllIgnoringOwner(regs, owner) ==
    [listeners |-> <<>>, rmCount |-> SumLevels(regs, 1)]
\* Log.removeAllEventListeners(owner)
RemoveAllEventListenersOf(regs, owner) ==
    IF NoOwnerGiven(owner)
    THEN [listeners |-> <<>>, rmCount |-> SumLevels(regs, 1)]
    ELSE RemoveOwnerFrom(regs, 1, owner, 0)

\* evt.levels.length === level.length && evt.levels.every(l => level.includes(l))
SameLevels(evtLevels, level) ==
    /\ Len(evtLevels) = Len(level)
    /\ \A k \in 1..Len(evtLevels) : Includes(level, evtLevels[k])

\* The inner loop of removeEventListeners over evt.levels, from index j on.
RECURSIVE StripLevelsFrom(_, _, _, _, _)
StripLevelsFrom(evtLevels, j, level, matches, rmCount) ==
    IF j > Len(evtLevels)
    THEN [levels |-> evtLevels, rmCount |-> rmCount, emptied |-> FALSE]
    ELSE LET hit == Includes(level, evtLevels[j]) /\ matches
             left == IF hit THEN Splice(evtLevels, j) ELSE evtLevels
             n == IF hit THEN rmCount + 1 ELSE rmCount
         IN IF Len(left) = 0
            THEN [levels |-> left, rmCount |-> n, emptied |-> TRUE]
            ELSE StripLevelsFrom(left, IF hit THEN j ELSE j + 1, level, matches, n)

\* The outer loop of removeEventListeners, from index i on.
RECURSIVE RemoveEventListenersFrom(_, _, _, _, _, _)
RemoveEventListenersFrom(regs, i, level, listener, owner, rmCount) ==
    IF i > Len(regs) THEN [listeners |-> regs, rmCount |-> rmCount]
    ELSE LET evt == regs[i]
             matches == evt.listener = listener /\ (NoOwnerGiven(owner) \/ evt.owner = owner)
         IN IF SameLevels(evt.levels, level)
            THEN IF matches
                 THEN RemoveEventListenersFrom(Splice(regs, i), i, level, listener, owner,
                                               rmCount + 1)
                 ELSE RemoveEventListenersFrom(regs, i + 1, level, listener, owner, rmCount)
            ELSE LET r == StripLevelsFrom(evt.levels, 1, level, matches, rmCount) IN
                 IF r.emptied
                 THEN RemoveEventListenersFrom(Splice(regs, i), i, level, listener, owner,
                                               r.rmCount)
                 ELSE RemoveEventListenersFrom([regs EXCEPT ![i].levels = r.levels], i + 1,
                                               level, listener, owner, r.rmCount)

\* Log.removeEventListeners(level, listener, owner), level already an array
RemoveEventListenersOf(regs, level, listener, owner) ==
    RemoveEventListenersFrom(regs, 1, level, listener, owner, 0)

\* ---------------------------------------------------------------- worker relay
\* JavaScript truthiness of a string | undefined
TruthyText(x) == x # "" /\ x # "undefined"

\* data.action === 'log' && data.level && data.message, data.scope
\* (a comma expression: its value is that of data.scope)
HandlerAdds(data) == TruthyText(data.scope)

\* messageHandler of registerWorker, run once for each handler attached to the worker.
RECURSIVE RunHandlers(_, _, _, _)
RunHandlers(st, n, data, t) ==
    IF n = 0 THEN st
    ELSE RunHandlers(IF HandlerAdds(data)
                     THEN AddLocal(st, data.level, data.message, data.scope, data.extra, t)
                     ELSE st,
                     n - 1, data, t)

HandlersKept(n, data) == n
\* The handlers left attached after the message: 'terminate' detaches each handler.
HandlersAfter(n, data) ==
    IF ~HandlerAdds(data) /\ data.action = "terminate" THEN 0 ELSE n

LogMessage(level, message, scope, extra) ==
    [action |-> "log", level |-> level, message |-> message, scope |-> scope,
     extra |-> extra]
\* Other messages a worker posts to its parent.
OtherMessages ==
    {[action |-> "terminate", level |-> NoLevel, message |-> "", scope |-> "",
      extra |-> NoExtra],
     [action |-> "terminate", level |-> "DISABLE", message |-> "m1", scope |-> "s1",
      extra |-> NoExtra]}

\* ---------------------------------------------------------------- operations
OpRec(name) ==
    [name |-> name, level |-> "", levels |-> <<>>, scope |-> "", listener |-> "",
     owner |-> "", single |-> FALSE, limit |-> Unbounded, worker |-> "", action |-> "",
     sensitive |-> FALSE, utc |-> FALSE, offset |-> 0]

\* History: the length of the run of adds into an initially empty store.
RunAfter(st) ==
    IF st.nextId > nextId
    THEN (IF runAdds = Null THEN Null ELSE runAdds + (st.nextId - nextId))
    ELSE IF st.events = <<>> THEN 0
    ELSE IF st.events = events THEN runAdds
    ELSE Null

SinceAfter(st) ==
    IF st.nextId > nextId /\ sinceSet # "unset" THEN "added" ELSE sinceSet

\* History: whether the operation took an event out of the store.
RemovedBy(st) == Len(st.events) < Len(events) + (st.nextId - nextId)

\* The operation's effect on the context, and the record of what it did.
Commit(st, o, t) ==
    /\ events' = st.events
    /\ eventListeners' = st.eventListeners
    /\ prevTimestamp' = st.prevTimestamp
    /\ nextId' = st.nextId
    /\ out' = [st.out EXCEPT !.removed = RemovedBy(st)]
    /\ op' = o
    /\ clock' = t
    /\ runAdds' = RunAfter(st)
    /\ sinceSet' = SinceAfter(st)

\* The clock readings an operation that starts now can see.
Now == clock .. Min(clock + 1, MaxClock)

Add(level, message, scope, extra, t) ==
    /\ nextId < MaxAdds
    /\ Commit(AddLocal(Ctx, level, message, scope, extra, t),
              [OpRec("add") EXCEPT !.level = level, !.scope = scope], t)
    /\ UNCHANGED <<printThreshold, maxEvents, workers, handlers, chan, wlog, inbox>>

\* The message a sensitive event is stored with.
RedactedMessage == "### SENSITIVE INFO REDACTED ###"
\* Texts passed with the sensitive flag set.
SecretTexts == {"secret 1", "secret 2"}

RedactNothing(message, sensitive) == message
\* The message the shorthand methods hand to add.
Redact(message, sensitive) == IF sensitive THEN RedactedMessage ELSE message

ShorthandName == [DEBUG |-> "debug", INFO |-> "info", WARN |-> "warn", ERROR |-> "error"]
\* error() passes the lines of the stack trace, without its first line, as extra.
ShorthandExtra(level) == IF level = "ERROR" THEN "stack" ELSE NoExtra

\* Log.debug, Log.info, Log.warn (message, scope, sensitive) and
\* Log.error(message, scope, error, sensitive)
Shorthand(level, message, scope, sensitive, t) ==
    /\ nextId < MaxAdds
    /\ Commit(AddLocal(Ctx, level, Redact(message, sensitive), scope, ShorthandExtra(level), t),
              [OpRec(ShorthandName[level]) EXCEPT !.level = level, !.scope = scope,
                                                  !.sensitive = sensitive], t)
    /\ UNCHANGED <<printThreshold, maxEvents, workers, handlers, chan, wlog, inbox>>

Clear(t) ==
    /\ Commit(ClearLog(Ctx, t), OpRec("clear"), t)
    /\ UNCHANGED <<printThreshold, maxEvents, workers, handlers, chan, wlog, inbox>>

RemoveEventsAtLevel(level) ==
    /\ Commit(RemoveEventsAtLevelOf(Ctx, level),
              [OpRec("removeEventsAtLevel") EXCEPT !.level = level], clock)
    /\ UNCHANGED <<printThreshold, maxEvents, workers, handlers, chan, wlog, inbox>>

RemoveEventsBelowLevel(level) ==
    /\ Commit(RemoveEventsBelowLevelOf(Ctx, level),
              [OpRec("removeEventsBelowLevel") EXCEPT !.level = level], clock)
    /\ UNCHANGED <<printThreshold, maxEvents, workers, handlers, chan, wlog, inbox>>

RemoveScopeEvents(scope) ==
    /\ Commit(RemoveScopeEventsOf(Ctx, scope),
              [OpRec("removeScopeEvents") EXCEPT !.scope = scope], clock)
    /\ UNCHANGED <<printThreshold, maxEvents, workers, handlers, chan, wlog, inbox>>

RemoveScopeEventsAtLevel(scope, level, t) ==
    /\ Commit(RemoveScopeEventsAtLevelOf(Ctx, scope, level, t),
              [OpRec("removeScopeEventsAtLevel") EXCEPT !.level = level, !.scope = scope], t)
    /\ UNCHANGED <<printThreshold, maxEvents, workers, handlers, chan, wlog, inbox>>

RemoveScopeEventsBelowLevel(scope, level, t) ==
    /\ Commit(RemoveScopeEventsBelowLevelOf(Ctx, scope, level, t),
              [OpRec("removeScopeEventsBelowLevel") EXCEPT !.level = level, !.scope = scope], t)
    /\ UNCHANGED <<printThreshold, maxEvents, workers, handlers, chan, wlog, inbox>>

\* A query: returns an array and assigns no field of Log.
Returning(name, level, scope, result) ==
    /\ Commit([Ctx EXCEPT !.out.result = result],
              [OpRec(name) EXCEPT !.level = level, !.scope = scope], clock)
    /\ UNCHANGED <<printThreshold, maxEvents, workers, handlers, chan, wlog, inbox>>

\* events[events.length - 1].time.toString(utc), in a time zone with the given offset
ToStringCall(utc, offset) ==
    /\ events # <<>>
    /\ Commit([Ctx EXCEPT !.out.result = <<ToString(events[Len(events)].time, utc, offset)>>],
              [OpRec("toString") EXCEPT !.utc = utc, !.offset = offset], clock)
    /\ UNCHANGED <<printThreshold, maxEvents, workers, handlers, chan, wlog, inbox>>

GetAllEventsCall == Returning("getAllEvents", "", "", GetAllEvents(events))
GetScopeEventsCall(scope) == Returning("getScopeEvents", "", scope, GetScopeEvents(events, scope))
GetAllEventsAtLevel(level) ==
    Returning("getAllEventsAtLevel", level, "", GetAllEventsAtLevelOf(events, level))
GetAllEventsAtOrAboveLevel(level) ==
    Returning("getAllEventsAtOrAboveLevel", level, "", GetAllEventsAtOrAboveLevelOf(events, level))
GetAllEventsAtOrBelowLevel(level) ==
    Returning("getAllEventsAtOrBelowLevel", level, "", GetAllEventsAtOrBelowLevelOf(events, level))
ExportToJson(level) == Returning("exportToJson", level, "", ExportToJsonOf(events, level))

\* owner || null
OwnerOrNull(owner) == IF NoOwnerGiven(owner) THEN NoOwner ELSE owner

AddEventListener(level, listener, owner, singleEvent) ==
    /\ Commit([Ctx EXCEPT !.eventListeners =
                   AddEventListenerTo(@, level, listener, OwnerOrNull(owner), singleEvent)],
              [OpRec("addEventListener") EXCEPT !.levels = level, !.listener = listener,
                                                !.owner = owner, !.single = singleEvent],
              clock)
    /\ UNCHANGED <<printThreshold, maxEvents, workers, handlers, chan, wlog, inbox>>

RemoveAllEventListeners(owner) ==
    /\ LET r == RemoveAllEventListenersOf(eventListeners, owner) IN
       Commit([Ctx EXCEPT !.eventListeners = r.listeners, !.out.returned = r.rmCount],
              [OpRec("removeAllEventListeners") EXCEPT !.owner = owner], clock)
    /\ UNCHANGED <<printThreshold, maxEvents, workers, handlers, chan, wlog, inbox>>

RemoveEventListeners(level, listener, owner) ==
    /\ LET r == RemoveEventListenersOf(eventListeners, level, listener, owner) IN
       Commit([Ctx EXCEPT !.eventListeners = r.listeners, !.out.returned = r.rmCount],
              [OpRec("removeEventListeners") EXCEPT !.levels = level, !.listener = listener,
                                                    !.owner = owner], clock)
    /\ UNCHANGED <<printThreshold, maxEvents, workers, handlers, chan, wlog, inbox>>

\* getPrintThreshold(): the first key of Object.entries(Log.LEVELS), from index k on,
\* whose rank is the threshold, "DISABLE" if there is none.
RECURSIVE GetPrintThresholdFrom(_, _)
GetPrintThresholdFrom(k, threshold) ==
    IF k > Len(LevelKeys) THEN "DISABLE"
    ELSE IF LEVELS[LevelKeys[k]] = threshold THEN LevelKeys[k]
    ELSE GetPrintThresholdFrom(k + 1, threshold)
GetPrintThreshold(threshold) == GetPrintThresholdFrom(1, threshold)

SetPrintThresholdEventLevelsOnly(level) ==
    /\ IF IsValidLevel(level)
       THEN /\ printThreshold' = LEVELS[level]
            /\ Commit(Ctx, [OpRec("setPrintThreshold") EXCEPT !.level = level], clock)
       ELSE /\ printThreshold' = printThreshold
            /\ Commit(Warned(Ctx), [OpRec("setPrintThreshold") EXCEPT !.level = level], clock)
    /\ UNCHANGED <<maxEvents, workers, handlers, chan, wlog, inbox>>

\* for (const worker of this.workers) worker.postMessage(message), from index k on
RECURSIVE PostToWorkers(_, _, _, _)
PostToWorkers(box, ws, k, message) ==
    IF k > Len(ws) THEN box
    ELSE PostToWorkers([box EXCEPT ![ws[k]] = Append(@, message)], ws, k + 1, message)

ThresholdMessage(level) == [action |-> "log-set-print-threshold", level |-> level]

\* Log.setPrintThreshold(level): Log.workers holds the workers to notify.
SetPrintThreshold(level) ==
    /\ IF level \in LevelNames
       THEN /\ printThreshold' = LEVELS[level]
            /\ inbox' = PostToWorkers(inbox, workers, 1, ThresholdMessage(level))
            /\ Commit(Ctx, [OpRec("setPrintThreshold") EXCEPT !.level = level], clock)
       ELSE /\ printThreshold' = printThreshold
            /\ inbox' = inbox
            /\ Commit(Warned(Ctx), [OpRec("setPrintThreshold") EXCEPT !.level = level], clock)
    /\ UNCHANGED <<maxEvents, workers, handlers, chan, wlog>>

\* Log.maxEvents = limit: the store is not trimmed by the setter.
SetMaxEvents(limit) ==
    /\ maxEvents' = limit
    /\ events' = events
    /\ runAdds' = IF events = <<>> THEN 0 ELSE IF limit = maxEvents THEN runAdds ELSE Null
    /\ sinceSet' = IF limit = Unbounded THEN "unset" ELSE "set"
    /\ op' = [OpRec("setMaxEvents") EXCEPT !.limit = limit]
    /\ out' = NoOutput
    /\ UNCHANGED <<eventListeners, prevTimestamp, printThreshold, clock, nextId,
                   workers, handlers, chan, wlog, inbox>>

\* Log.registerWorker(worker): attaches a new message handler to the worker.
RegisterWorker(w) ==
    /\ handlers[w] < MaxHandlers
    /\ handlers' = [handlers EXCEPT ![w] = @ + 1]
    /\ Commit(Ctx, [OpRec("registerWorker") EXCEPT !.worker = w], clock)
    /\ UNCHANGED <<printThreshold, maxEvents, workers, chan, wlog, inbox>>

\* The Log class as loaded in a worker: its own static fields. calls is history: the
\* number of add calls the worker has made.
WorkerLog ==
    [events |-> <<>>, eventListeners |-> <<>>, prevTimestamp |-> Null, nextId |-> 0,
     printThreshold |-> 1, separateWorkerScope |-> FALSE, calls |-> 0]

\* The context a local operation of the worker's Log works on.
WorkerCtx(w) ==
    [events |-> wlog[w].events, eventListeners |-> wlog[w].eventListeners,
     prevTimestamp |-> wlog[w].prevTimestamp, nextId |-> wlog[w].nextId, out |-> NoOutput]

\* The worker's static fields after a local operation ended in context st.
WorkerLogAfter(w, st) ==
    [wlog[w] EXCEPT !.events = st.events, !.eventListeners = st.eventListeners,
                    !.prevTimestamp = st.prevTimestamp, !.nextId = st.nextId]

RedirectsWhenSeparate(w) == wlog[w].separateWorkerScope
\* Whether Log.add posts the call to the parent instead of storing: in a worker scope
\* with separateWorkerScope false.
Redirects(w) == ~wlog[w].separateWorkerScope

\* Log.add called inside the worker.
WorkerAdd(w, level, message, scope, extra) ==
    /\ wlog[w].calls < MaxSent
    /\ IF Redirects(w)
       THEN /\ Len(chan[w]) < MaxQueue
            /\ chan' = [chan EXCEPT ![w] = Append(@, LogMessage(level, message, scope, extra))]
            /\ wlog' = [wlog EXCEPT ![w].calls = @ + 1]
            /\ Commit(Ctx, [OpRec("workerAdd") EXCEPT !.worker = w, !.level = level,
                                                      !.scope = scope], clock)
       ELSE LET st == AddIn(WorkerCtx(w), wlog[w].printThreshold, Unbounded,
                            level, message, scope, extra, clock)
            IN /\ chan' = chan
               /\ wlog' = [wlog EXCEPT ![w] = [WorkerLogAfter(w, st) EXCEPT !.calls = @ + 1]]
               /\ Commit([Ctx EXCEPT !.out = st.out],
                         [OpRec("workerAdd") EXCEPT !.worker = w, !.level = level,
                                                   !.scope = scope], clock)
    /\ UNCHANGED <<printThreshold, maxEvents, workers, handlers, inbox>>

\* Log.addEventListener called inside the worker.
WorkerAddEventListener(w, level, listener) ==
    /\ wlog' = [wlog EXCEPT ![w].eventListeners =
                    AddEventListenerTo(@, level, listener, NoOwner, FALSE)]
    /\ Commit(Ctx, [OpRec("workerAddEventListener") EXCEPT !.worker = w, !.levels = level,
                                                           !.listener = listener], clock)
    /\ UNCHANGED <<printThreshold, maxEvents, workers, handlers, chan, inbox>>

\* Log.separateWorkerScope = value, inside the worker.
SetSeparateWorkerScope(w, value) ==
    /\ wlog' = [wlog EXCEPT ![w].separateWorkerScope = value]
    /\ Commit(Ctx, [OpRec("setSeparateWorkerScope") EXCEPT !.worker = w, !.single = value],
              clock)
    /\ UNCHANGED <<printThreshold, maxEvents, workers, handlers, chan, inbox>>

\* The worker posts another message to its parent.
WorkerPost(w, data) ==
    /\ Len(chan[w]) < MaxQueue
    /\ chan' = [chan EXCEPT ![w] = Append(@, data)]
    /\ Commit(Ctx, [OpRec("workerPost") EXCEPT !.worker = w, !.action = data.action], clock)
    /\ UNCHANGED <<printThreshold, maxEvents, workers, handlers, wlog, inbox>>

ReceiveNewest(queue) == [data |-> queue[Len(queue)], rest |-> SubSeq(queue, 1, Len(queue) - 1)]
\* The message channel of a worker delivers in the order of posting.
Receive(queue) == [data |-> Head(queue), rest |-> Tail(queue)]

\* The parent's event loop dispatches the oldest message of the worker to its handlers.
Deliver(w, t) ==
    /\ chan[w] # <<>>
    /\ LET data == Receive(chan[w]).data IN
       /\ (HandlerAdds(data) /\ handlers[w] > 0) => nextId + handlers[w] <= MaxAdds
       /\ chan' = [chan EXCEPT ![w] = Receive(@).rest]
       /\ handlers' = [handlers EXCEPT ![w] = HandlersAfter(@, data)]
       /\ Commit(RunHandlers(Ctx, handlers[w], data, t),
                 [OpRec("deliver") EXCEPT !.worker = w, !.action = data.action,
                                          !.level = data.level, !.scope = data.scope], t)
    /\ UNCHANGED <<printThreshold, maxEvents, workers, wlog, inbox>>

\* ---------------------------------------------------------------- specifications
Init ==
    /\ events = <<>>
    /\ eventListeners = <<>>
    /\ prevTimestamp = Null
    /\ printThreshold = 1
    /\ maxEvents = Unbounded
    /\ clock = 1
    /\ workers = <<>>
    /\ handlers = [w \in Workers |-> 0]
    /\ chan = [w \in Workers |-> <<>>]
    /\ wlog = [w \in Workers |-> WorkerLog]
    /\ inbox = [w \in Workers |-> <<>>]
    /\ nextId = 0
    /\ runAdds = 0
    /\ sinceSet = "unset"
    /\ op = OpRec("init")
    /\ out = NoOutput

\* The event store and its size limit.
Next ==
    \/ \E level \in LevelArgs, message \in Messages, scope \in Scopes :
         Add(level, message, scope, NoExtra, clock)
    \/ Clear(clock)
    \/ \E scope \in Scopes : RemoveScopeEvents(scope)
    \/ \E limit \in {Unbounded} \cup 1..MaxLimit : SetMaxEvents(limit)

Spec == Init /\ [][Next]_vars

\* The console sink: every level at every threshold, with listeners registered for
\* level names that are no event level.
NextPrint ==
    \/ \E level \in LevelArgs, message \in Messages, t \in Now :
         nextId < MaxNotified /\ Add(level, message, "s1", NoExtra, t)
    \/ \E level \in LevelArgs : SetPrintThreshold(level)
    \/ \E level \in {<<"DISABLE">>, <<"FOOBAR", "WARN">>} :
         AddEventListener(level, "cb1", NoOwner, FALSE)

SpecPrint == Init /\ [][NextPrint]_vars

\* The listener registry: callbacks that return and a callback that throws.
NextListeners ==
    \/ \E level \in ValidLevels, message \in Messages :
         nextId < MaxNotified /\ Add(level, message, "s1", NoExtra, clock)
    \/ \E level \in {<<"DEBUG">>, <<"DEBUG", "WARN">>}, listener \in Callbacks,
          singleEvent \in BOOLEAN :
         AddEventListener(level, listener, NoOwner, singleEvent)
    \/ \E listener \in Callbacks : RemoveEventListeners(<<"DEBUG">>, listener, NoOwner)
    \/ Clear(clock)

SpecListeners == Init /\ [][NextListeners]_vars

\* The relay: one registered worker, local adds and removals in the parent.
NextRelay ==
    \/ \E level \in {"ERROR", "DISABLE"}, message \in Messages :
         Add(level, message, "s1", NoExtra, clock)
    \/ RegisterWorker("w1")
    \/ \E call \in {<<"INFO", "s1">>, <<"INFO", "">>, <<"DISABLE", "s1">>, <<NoLevel, "s1">>},
          message \in Messages :
         WorkerAdd("w1", call[1], message, call[2], NoExtra)
    \/ \E data \in OtherMessages : WorkerPost("w1", data)
    \/ Deliver("w1", clock)
    \/ \E level \in {"ERROR", "DISABLE"} : RemoveEventsBelowLevel(level)

SpecRelay == Init /\ [][NextRelay]_vars

\* The registry alone: level arrays as callers pass them (empty, repeated levels), owners.
NextRegistry ==
    \/ \E level \in {<<>>, <<"DEBUG">>, <<"WARN">>, <<"DEBUG", "DEBUG">>, <<"DEBUG", "WARN">>},
          listener \in Callbacks, owner \in {NoOwner, "o1", "o2"} :
         AddEventListener(level, listener, owner, FALSE)
    \/ \E level \in {<<"DEBUG">>, <<"DEBUG", "WARN">>}, listener \in Callbacks,
          owner \in {NoOwner, "o1"} :
         RemoveEventListeners(level, listener, owner)
    \/ \E owner \in {NoOwner, "o1"} : RemoveAllEventListeners(owner)

SpecRegistry == Init /\ [][NextRegistry]_vars

\* The removal operations on a store of two scopes, with listeners registered.
NextRemoval ==
    \/ \E level \in {"INFO", "WARN"}, message \in Messages, scope \in Scopes :
         Add(level, message, scope, NoExtra, clock)
    \/ \E listener \in Callbacks :
         AddEventListener(<<"INFO", "WARN">>, listener, NoOwner, FALSE)
    \/ \E level \in {"INFO", "WARN"} : RemoveEventsAtLevel(level)
    \/ \E level \in {"WARN", "ERROR"} : RemoveEventsBelowLevel(level)
    \/ \E scope \in Scopes : RemoveScopeEvents(scope)
    \/ \E level \in {"INFO", "WARN", "DISABLE"} : RemoveScopeEventsAtLevel("s1", level, clock)
    \/ \E level \in {"DEBUG", "ERROR", "DISABLE"} :
         RemoveScopeEventsBelowLevel("s1", level, clock)

SpecRemoval == Init /\ [][NextRemoval]_vars

\* The level-taking removals given valid and invalid level names, with a listener
\* registered for names that are no event level.
NextRejected ==
    \/ \E level \in {"INFO", "WARN"}, message \in Messages :
         nextId < MaxNotified /\ Add(level, message, "s1", NoExtra, clock)
    \/ AddEventListener(<<"WARN", "DISABLE", "FOOBAR">>, "cb1", NoOwner, FALSE)
    \/ \E level \in {"WARN", "DISABLE", "FOOBAR"} : RemoveEventsAtLevel(level)
    \/ \E level \in {"WARN", "DISABLE", "FOOBAR"} : RemoveEventsBelowLevel(level)
    \/ \E level \in {"WARN", "DISABLE", "FOOBAR"} : RemoveScopeEventsAtLevel("s1", level, clock)
    \/ \E level \in {"WARN", "DISABLE", "FOOBAR"} :
         RemoveScopeEventsBelowLevel("s1", level, clock)

SpecRejected == Init /\ [][NextRejected]_vars

\* The queries and the export on stores filled at different times.
NextQuery ==
    \/ \E call \in {<<"DEBUG", "s1">>, <<"INFO", "s1">>, <<"INFO", "s2">>, <<"ERROR", "s2">>},
          message \in Messages, t \in Now :
         Add(call[1], message, call[2], NoExtra, t)
    \/ GetAllEventsCall
    \/ \E scope \in Scopes : GetScopeEventsCall(scope)
    \/ \E level \in {"INFO", "DISABLE", "FOOBAR"} : GetAllEventsAtLevel(level)
    \/ \E level \in {"INFO", "DISABLE", "FOOBAR"} : GetAllEventsAtOrAboveLevel(level)
    \/ \E level \in {"INFO", "DISABLE", "FOOBAR"} : GetAllEventsAtOrBelowLevel(level)
    \/ \E level \in {NoLevel, "INFO", "ERROR", "DISABLE"} : ExportToJson(level)

SpecQuery == Init /\ [][NextQuery]_vars

\* The worker side: add with separateWorkerScope false and true, a listener registered
\* in the worker, the parent receiving.
NextWorker ==
    \/ \E level \in {"INFO", "DISABLE"}, message \in Messages :
         WorkerAdd("w1", level, message, "s1", NoExtra)
    \/ WorkerAddEventListener("w1", <<"INFO">>, "cb1")
    \/ \E value \in BOOLEAN : SetSeparateWorkerScope("w1", value)
    \/ RegisterWorker("w1")
    \/ Deliver("w1", clock)

SpecWorker == Init /\ [][NextWorker]_vars

\* Threshold changes in a parent that has registered workers.
NextBroadcast ==
    \/ \E w \in Workers : RegisterWorker(w)
    \/ \E level \in LevelArgs : SetPrintThreshold(level)

SpecBroadcast == Init /\ [][NextBroadcast]_vars

\* The texts a worker logs, in the order of its calls, and the scope each worker uses.
CallTexts == <<"call 1", "call 2", "call 3">>
ScopeOfWorker == [w \in Workers |-> IF w = "w1" THEN "s1" ELSE "s2"]

\* Two workers, each registered once and logging its texts in order, next to adds made
\* in the parent.
NextOrder ==
    \/ \E w \in Workers : handlers[w] = 0 /\ RegisterWorker(w)
    \/ \E w \in Workers :
         /\ wlog[w].calls < Len(CallTexts)
         /\ WorkerAdd(w, "INFO", CallTexts[wlog[w].calls + 1], ScopeOfWorker[w], NoExtra)
    \/ \E w \in Workers : Deliver(w, clock)
    \/ \E scope \in Scopes : Add("ERROR", "m1", scope, NoExtra, clock)

SpecOrder == Init /\ [][NextOrder]_vars

\* The shorthand methods with and without the sensitive flag, read back by a listener,
\* by scope and through the export.
NextSensitive ==
    \/ \E level \in ValidLevels, message \in SecretTexts, scope \in Scopes :
         Shorthand(level, message, scope, TRUE, clock)
    \/ \E level \in {"INFO", "ERROR"}, message \in Messages :
         Shorthand(level, message, "s1", FALSE, clock)
    \/ AddEventListener(<<"INFO", "WARN">>, "cb1", NoOwner, FALSE)
    \/ \E scope \in Scopes : GetScopeEventsCall(scope)
    \/ \E level \in {NoLevel, "INFO"} : ExportToJson(level)

SpecSensitive == Init /\ [][NextSensitive]_vars

\* Accepted and rejected adds at advancing clock readings, between operations that make
\* synthetic events.
NextTime ==
    \/ \E level \in {"INFO", "WARN", "FOOBAR"}, message \in Messages, t \in Now :
         Add(level, message, "s1", NoExtra, t)
    \/ AddEventListener(<<"INFO">>, "cb1", NoOwner, FALSE)
    \/ \E t \in Now : Clear(t)
    \/ \E t \in Now : RemoveScopeEventsAtLevel("s1", "INFO", t)
    \/ \E t \in Now : RemoveScopeEventsBelowLevel("s1", "WARN", t)

SpecTime == Init /\ [][NextTime]_vars

\* Timestamps of stored events formatted in several time zones.
NextFormat ==
    \/ \E level \in {"INFO", "WARN"}, message \in Messages, scope \in Scopes, t \in Now :
         Add(level, message, scope, NoExtra, t)
    \/ \E utc \in BOOLEAN, offset \in ZoneOffsets : ToStringCall(utc, offset)

SpecFormat == Init /\ [][NextFormat]_vars

\* ---------------------------------------------------------------- claims: event store
\* The step is an add() with a valid level in a context that stores locally.
AcceptedAddStep == op'.name = "add" /\ op'.level \in ValidLevels
\* The last element of the store after the step is the event the step created.
NewEventLast ==
    /\ events' # <<>>
    /\ events'[Len(events')].id = nextId'
    /\ nextId' = nextId + 1
    /\ events'[Len(events')].level = LEVELS[op'.level]
    /\ events'[Len(events')].scope = op'.scope

C2_InvalidLevelRejected ==
    [][(op'.name = "add" /\ op'.level \notin ValidLevels) =>
         /\ events' = events
         /\ eventListeners' = eventListeners
         /\ prevTimestamp' = prevTimestamp
         /\ nextId' = nextId
         /\ out'.calls = <<>>
         /\ ~out'.threw
         /\ out'.console = <<"warn">>]_vars

\* add("DISABLE") was rejected with a listener registered for "DISABLE", events in the
\* store, the clock advanced past the last event, and everything printed (threshold DEBUG).
C2_Witness ==
    /\ op.name = "add" /\ op.level = "DISABLE"
    /\ out.console = <<"warn">>
    /\ events # <<>> /\ clock > prevTimestamp /\ prevTimestamp # Null
    /\ printThreshold = 0
    /\ \E i \in 1..Len(eventListeners) : Includes(eventListeners[i].levels, "DISABLE")

\* The console channel of each event level.
ChannelOf == [DEBUG |-> "debug", INFO |-> "info", WARN |-> "warn", ERROR |-> "error"]

\* C3: at threshold T a successful add(L, ...) makes exactly one console call, on the
\* channel of L, when rank(L) >= rank(T), and no console call otherwise.
C3_PrintIffAtOrAboveThreshold ==
    (op.name = "add" /\ op.level \in ValidLevels) =>
        out.console = IF LEVELS[op.level] >= printThreshold
                      THEN <<ChannelOf[op.level]>> ELSE <<>>

\* A WARN event added at threshold WARN (the boundary) was printed on the warn channel.
C3_Witness ==
    /\ op.name = "add" /\ op.level = "WARN"
    /\ printThreshold = LEVELS.WARN
    /\ out.console = <<"warn">>

\* C4: every event in the store has a level rank in 0..3, whatever sequence of local
\* adds, relayed worker messages and removals led to the state.
C4_StoredRanksValid == \A i \in 1..Len(events) : events[i].level \in 0..3

\* A relayed message with level DISABLE was delivered to a registered handler while the
\* store held an event.
C4_Witness ==
    /\ op.name = "deliver" /\ op.level = "DISABLE" /\ op.scope = "s1"
    /\ out.console = <<"warn">>
    /\ events # <<>>

\* ---------------------------------------------------------------- claims: listeners
\* The listeners invoked by the last operation, in order.
Invoked(o) == [k \in 1..Len(o.calls) |-> o.calls[k].listener]
\* The listeners of the subscriptions whose level set contains the level, in registry order.
Subscribed(regs, level) ==
    LET Has(sub) == \E j \in 1..Len(sub.levels) : sub.levels[j] = level
        subs == SelectSeq(regs, Has)
    IN [k \in 1..Len(subs) |-> subs[k].listener]
Range(seq) == {seq[k] : k \in 1..Len(seq)}

\* C7: a registered listener is invoked by a successful add(L, ...) if and only if L is
\* in the level set of its subscription at that moment.
C7_InvokedIffSubscribed ==
    [][AcceptedAddStep =>
         \A i \in 1..Len(eventListeners) :
            Includes(eventListeners[i].levels, op'.level)
              <=> eventListeners[i].listener \in Range(Invoked(out'))]_vars

\* C8: for every successfully added event, every subscription whose level set contains
\* the event's level is invoked exactly once, in registration order, with (level, event).
C8_EachSubscriberOnceInOrder ==
    [][AcceptedAddStep =>
         /\ Invoked(out') = Subscribed(eventListeners, op'.level)
         /\ \A k \in 1..Len(out'.calls) :
              out'.calls[k].level = op'.level /\ out'.calls[k].id = nextId']_vars

\* C9: a subscription registered with singleEvent = true is invoked at most once, and is
\* out of the registry once it has been invoked.
C9_SingleInvokedOnce ==
    [][\A i \in 1..Len(eventListeners) :
         eventListeners[i].single =>
            LET n == Cardinality({k \in 1..Len(out'.calls) :
                                    out'.calls[k].listener = eventListeners[i].listener})
            IN /\ n <= 1
               /\ n = 1 => eventListeners[i].listener \notin
                             {eventListeners'[j].listener : j \in 1..Len(eventListeners')}]_vars

\* C10: the registry holds at most one subscription per callback, and addEventListener
\* with a registered callback keeps the entries as they are, adding the new levels to the
\* levels of the existing subscription.
C10_OneSubscriptionPerCallback ==
    /\ [](\A i, j \in 1..Len(eventListeners) :
            eventListeners[i].listener = eventListeners[j].listener => i = j)
    /\ [][(op'.name = "addEventListener"
           /\ op'.listener \in {eventListeners[i].listener : i \in 1..Len(eventListeners)}) =>
            /\ Len(eventListeners') = Len(eventListeners)
            /\ \A i \in 1..Len(eventListeners) :
                 IF eventListeners[i].listener = op'.listener
                 THEN /\ eventListeners'[i].listener = op'.listener
                      /\ Range(eventListeners'[i].levels)
                           = Range(eventListeners[i].levels) \cup Range(op'.levels)
                 ELSE eventListeners'[i] = eventListeners[i]]_vars

\* A callback left with WARN alone was registered again for DEBUG: one entry, both levels.
C10_Witness ==
    /\ op.name = "addEventListener" /\ op.levels = <<"DEBUG">>
    /\ Len(eventListeners) = 2
    /\ \E i \in 1..2 : /\ eventListeners[i].listener = op.listener
                       /\ eventListeners[i].levels = <<"WARN", "DEBUG">>

\* ---------------------------------------------------------------- claims: the registry
\* The number of (level, callback) pairs the registry holds.
RECURSIVE PairCount(_)
PairCount(regs) == IF regs = <<>> THEN 0 ELSE Len(Head(regs).levels) + PairCount(Tail(regs))

\* C11: in every reachable state the level collection of every subscription is a
\* non-empty set: at least one level, and no level listed twice.
C11_LevelsNonEmptySet ==
    \A i \in 1..Len(eventListeners) :
        LET levels == eventListeners[i].levels IN
        /\ levels # <<>>
        /\ \A j, k \in 1..Len(levels) : levels[j] = levels[k] => j = k

\* The subscription is one that removeEventListeners(S, cb, owner) of the step addresses.
AddressedBy(sub, o) ==
    sub.listener = o.listener /\ (o.owner \in {NoOwner, ""} \/ sub.owner = o.owner)

\* The registry after the levels of the step's set S are taken from the addressed
\* subscription, which is dropped when no level is left.
AfterStripping(regs, o) ==
    LET NotInS(l) == l \notin Range(o.levels)
        Strip(sub) == IF AddressedBy(sub, o)
                      THEN [sub EXCEPT !.levels = SelectSeq(@, NotInS)] ELSE sub
        Stays(sub) == ~(AddressedBy(sub, o) /\ Strip(sub).levels = <<>>)
        left == SelectSeq(regs, Stays)
    IN [k \in 1..Len(left) |-> Strip(left[k])]

\* C12: removeEventListeners(S, cb, owner?) on a matching subscription of cb takes exactly
\* the levels of S out of that subscription and leaves every other subscription as it is;
\* for the event added next, cb is not invoked when the level is in S and is invoked when
\* the level is one its subscription keeps.
C12_RemovedLevelsSilenced ==
    [][/\ (/\ op'.name = "removeEventListeners"
           /\ \E i \in 1..Len(eventListeners) :
                /\ AddressedBy(eventListeners[i], op')
                /\ Range(eventListeners[i].levels) \cap Range(op'.levels) # {})
          => eventListeners' = AfterStripping(eventListeners, op')
       /\ (op.name = "removeEventListeners" /\ out.returned > 0 /\ AcceptedAddStep)
          => /\ op'.level \in Range(op.levels) => op.listener \notin Range(Invoked(out'))
             /\ (\E i \in 1..Len(eventListeners) :
                    /\ eventListeners[i].listener = op.listener
                    /\ Includes(eventListeners[i].levels, op'.level))
                => op.listener \in Range(Invoked(out'))]_vars

\* C13: removeEventListeners returns the number of (level, callback) pairs it removed,
\* whether the given levels are the whole level set of the subscription or overlap it.
C13_ReturnsPairsRemoved ==
    [][op'.name = "removeEventListeners"
         => out'.returned = PairCount(eventListeners) - PairCount(eventListeners')]_vars

\* C14: removeAllEventListeners(owner) removes exactly the subscriptions tagged with the
\* owner, or every subscription when no owner is given, leaves the others registered in
\* their order, and returns the sum of the sizes of the removed level collections.
C14_RemoveAllByOwner ==
    [][op'.name = "removeAllEventListeners" =>
         LET Gone(sub) == op'.owner = NoOwner \/ sub.owner = op'.owner
             Kept(sub) == ~Gone(sub)
         IN /\ eventListeners' = SelectSeq(eventListeners, Kept)
            /\ out'.returned = PairCount(SelectSeq(eventListeners, Gone))]_vars

\* removeAllEventListeners("o1") removed a subscription of two levels or more and left
\* the subscription of another owner registered.
C14_Witness ==
    /\ op.name = "removeAllEventListeners" /\ op.owner = "o1"
    /\ out.returned >= 2
    /\ Len(eventListeners) = 1 /\ eventListeners[1].owner = "o2"

\* ---------------------------------------------------------------- claims: clear and removals
\* The (listener, level) pairs of the cleared notifications for the level names, in
\* order: each level goes to the subscriptions holding it, in registry order, and a
\* single subscription leaves the registry with its first notification.
RECURSIVE ClearedCalls(_, _)
ClearedCalls(regs, names) ==
    IF names = <<>> THEN <<>>
    ELSE LET level == Head(names)
             Has(sub) == level \in Range(sub.levels)
             Stays(sub) == ~(Has(sub) /\ sub.single)
             hit == SelectSeq(regs, Has)
         IN [k \in 1..Len(hit) |-> <<hit[k].listener, level>>]
            \o ClearedCalls(SelectSeq(regs, Stays), Tail(names))

\* The (listener, level) pairs of the invocations the operation made, in order.
CallPairs(o) == [k \in 1..Len(o.calls) |-> <<o.calls[k].listener, o.calls[k].level>>]
\* Every invocation carried the sentinel rather than a stored event.
AllSentinel(o) ==
    \A k \in 1..Len(o.calls) : o.calls[k].message = ClearMessage /\ o.calls[k].id = 0

\* C15: clear() fires four cleared notifications, for DEBUG, INFO, WARN, ERROR in that
\* order, each to the subscriptions whose level set holds the level; the synthetic events
\* carry the sentinel, are not in the store (which is empty at each notification), are not
\* printed and leave the last timestamp as it was.
C15_ClearNotifiesEachLevel ==
    [][op'.name = "clear" =>
         /\ CallPairs(out') = ClearedCalls(eventListeners, <<"DEBUG", "INFO", "WARN", "ERROR">>)
         /\ AllSentinel(out')
         /\ \A k \in 1..Len(out'.calls) : out'.calls[k].store = <<>>
         /\ events' = <<>>
         /\ out'.console = <<>>
         /\ prevTimestamp' = prevTimestamp
         /\ nextId' = nextId]_vars

\* C16: after clear() the store is empty: getAllEvents() and getScopeEvents(s), for every
\* scope s, have length 0.
C16_ClearEmptiesStore ==
    op.name = "clear" =>
        /\ Len(GetAllEvents(events)) = 0
        /\ \A scope \in Scopes : Len(GetScopeEvents(events, scope)) = 0

\* clear() took events out of a store that three adds had filled.
C16_Witness == op.name = "clear" /\ out.removed /\ nextId = MaxAdds

\* The names of the event levels with a rank below that of the level, in rank order.
NamesBelow(level) ==
    LET Below(name) == LEVELS[name] < LEVELS[level]
    IN SelectSeq(<<"DEBUG", "INFO", "WARN", "ERROR">>, Below)

\* C17: for a valid level L, removeScopeEventsAtLevel(scope, L) fires one cleared
\* notification, at L, and removeScopeEventsBelowLevel(scope, L) fires one for each level
\* of rank below rank(L), in ascending rank order and none at or above L, whether or not
\* an event was removed; each goes to the subscriptions whose level set holds the level.
C17_ScopedRemovalNotifies ==
    [][/\ (op'.name = "removeScopeEventsAtLevel" /\ op'.level \in ValidLevels)
          => CallPairs(out') = ClearedCalls(eventListeners, <<op'.level>>) /\ AllSentinel(out')
       /\ (op'.name = "removeScopeEventsBelowLevel" /\ op'.level \in ValidLevels)
          => CallPairs(out') = ClearedCalls(eventListeners, NamesBelow(op'.level))
             /\ AllSentinel(out')]_vars

\* C18: removeEventsAtLevel, removeEventsBelowLevel and removeScopeEvents invoke no
\* listener and leave the listener registry unchanged, also when they remove events.
C18_PlainRemovalsSilent ==
    [][op'.name \in {"removeEventsAtLevel", "removeEventsBelowLevel", "removeScopeEvents"} =>
         /\ out'.calls = <<>>
         /\ ~out'.threw
         /\ eventListeners' = eventListeners]_vars

\* removeEventsAtLevel(L) removed events while a listener was subscribed to L.
C18_Witness ==
    /\ op.name = "removeEventsAtLevel" /\ out.removed
    /\ \E i \in 1..Len(eventListeners) : op.level \in Range(eventListeners[i].levels)

\* C19: for a valid level L, removeEventsAtLevel(L) removes exactly the events of rank
\* rank(L) and removeEventsBelowLevel(L) exactly those of a rank below rank(L), in every
\* scope; the other events stay in their order.
C19_LevelRemovalExact ==
    [][/\ (op'.name = "removeEventsAtLevel" /\ op'.level \in ValidLevels) =>
            LET Kept(e) == e.level # LEVELS[op'.level] IN events' = SelectSeq(events, Kept)
       /\ (op'.name = "removeEventsBelowLevel" /\ op'.level \in ValidLevels) =>
            LET Kept(e) == ~(e.level < LEVELS[op'.level]) IN events' = SelectSeq(events, Kept)
      ]_vars

\* removeEventsAtLevel(L) removed a run of two events at L and left the third event.
C19_Witness ==
    /\ op.name = "removeEventsAtLevel" /\ out.removed
    /\ nextId = MaxAdds /\ Len(events) = 1 /\ events[1].id = MaxAdds
    /\ events[1].level # LEVELS[op.level]

\* C20: removeScopeEvents(s) removes exactly the events of scope s, and
\* removeScopeEventsAtLevel(s, L) / removeScopeEventsBelowLevel(s, L) exactly those of
\* scope s with rank = rank(L) / rank < rank(L); every other event stays, in its order.
C20_ScopedRemovalExact ==
    [][/\ op'.name = "removeScopeEvents" =>
            LET Kept(e) == e.scope # op'.scope IN events' = SelectSeq(events, Kept)
       /\ (op'.name = "removeScopeEventsAtLevel" /\ op'.level \in ValidLevels) =>
            LET Kept(e) == ~(e.scope = op'.scope /\ e.level = LEVELS[op'.level])
            IN events' = SelectSeq(events, Kept)
       /\ (op'.name = "removeScopeEventsBelowLevel" /\ op'.level \in ValidLevels) =>
            LET Kept(e) == ~(e.scope = op'.scope /\ e.level < LEVELS[op'.level])
            IN events' = SelectSeq(events, Kept)]_vars

\* removeScopeEventsAtLevel(s, L) removed an event and left one of scope s at another
\* level and one at level L in another scope.
C20_Witness ==
    /\ op.name = "removeScopeEventsAtLevel" /\ out.removed
    /\ \E i, j \in 1..Len(events) :
         /\ events[i].scope = op.scope /\ events[i].level # LEVELS[op.level]
         /\ events[j].scope # op.scope /\ events[j].level = LEVELS[op.level]

\* ---------------------------------------------------------------- claims: rejected removals
\* C21: removeEventsAtLevel, removeEventsBelowLevel, removeScopeEventsAtLevel and
\* removeScopeEventsBelowLevel called with DISABLE or an unrecognized level name change
\* neither the store nor the listener registry, notify no listener, throw nothing and
\* emit one warn diagnostic.
C21_InvalidLevelRemovalNoOp ==
    [][(/\ op'.name \in {"removeEventsAtLevel", "removeEventsBelowLevel",
                         "removeScopeEventsAtLevel", "removeScopeEventsBelowLevel"}
        /\ op'.level \notin ValidLevels) =>
         /\ events' = events
         /\ eventListeners' = eventListeners
         /\ prevTimestamp' = prevTimestamp
         /\ out'.calls = <<>>
         /\ ~out'.threw
         /\ out'.console = <<"warn">>]_vars

\* removeScopeEventsBelowLevel('s1', 'DISABLE') was rejected with events of s1 in the
\* store and a listener registered for the name DISABLE.
C21_Witness ==
    /\ op.name = "removeScopeEventsBelowLevel" /\ op.level = "DISABLE"
    /\ out.console = <<"warn">>
    /\ Len(events) = MaxNotified
    /\ \E i \in 1..Len(eventListeners) : Includes(eventListeners[i].levels, "DISABLE")

\* ---------------------------------------------------------------- claims: queries, export
\* The step is a call of the named query with a level name that is a key of LEVELS.
QueryStep(name) == op'.name = name /\ op'.level \in LevelNames

\* C22: each query returns exactly the subsequence of the store that satisfies its
\* predicate, in store order (getAllEventsAtLevel rank = rank(L), AtOrAbove rank >=
\* rank(L), AtOrBelow rank <= rank(L), getScopeEvents scope = s), and changes no state
\* of the log.
C22_QueriesFilterInOrder ==
    [][/\ QueryStep("getAllEventsAtLevel") =>
            LET P(e) == e.level = LEVELS[op'.level] IN out'.result = SelectSeq(events, P)
       /\ QueryStep("getAllEventsAtOrAboveLevel") =>
            LET P(e) == e.level >= LEVELS[op'.level] IN out'.result = SelectSeq(events, P)
       /\ QueryStep("getAllEventsAtOrBelowLevel") =>
            LET P(e) == e.level <= LEVELS[op'.level] IN out'.result = SelectSeq(events, P)
       /\ op'.name = "getScopeEvents" =>
            LET P(e) == e.scope = op'.scope IN out'.result = SelectSeq(events, P)
       /\ op'.name \in {"getAllEvents", "getScopeEvents", "getAllEventsAtLevel",
                        "getAllEventsAtOrAboveLevel", "getAllEventsAtOrBelowLevel"} =>
            /\ events' = events /\ eventListeners' = eventListeners
            /\ prevTimestamp' = prevTimestamp /\ printThreshold' = printThreshold
            /\ out'.console = <<>> /\ out'.calls = <<>>]_vars

\* getAllEventsAtOrAboveLevel('INFO') returned two of three stored events, leaving out
\* a DEBUG event stored between them.
C22_Witness ==
    /\ op.name = "getAllEventsAtOrAboveLevel" /\ op.level = "INFO"
    /\ Len(events) = 3 /\ events[2].level = LEVELS.DEBUG
    /\ Len(out.result) = 2

\* C24: JSON.parse(exportToJson()) is an array as long as the store, in store order,
\* whose i-th element has the rank, message, scope and time of the i-th stored event;
\* exportToJson(L) yields the elements for the events of rank rank(L), in the same order;
\* the export changes no state of the log.
C24_ExportRoundTrip ==
    [][(op'.name = "exportToJson" /\ op'.level \in LevelNames \cup {NoLevel}) =>
         LET P(e) == e.level = LEVELS[op'.level]
             chosen == IF op'.level = NoLevel THEN events ELSE SelectSeq(events, P)
             parsed == JsonParse(out'.result)
         IN /\ Len(parsed) = Len(chosen)
            /\ \A i \in 1..Len(chosen) :
                 /\ parsed[i].level = chosen[i].level
                 /\ parsed[i].message = chosen[i].message
                 /\ parsed[i].scope = chosen[i].scope
                 /\ parsed[i].time = chosen[i].time.date
            /\ events' = events /\ eventListeners' = eventListeners
            /\ prevTimestamp' = prevTimestamp]_vars

\* exportToJson('INFO') yielded one element for a store of three events of three levels
\* added at different times.
C24_Witness ==
    /\ op.name = "exportToJson" /\ op.level = "INFO"
    /\ Len(events) = 3 /\ Len(out.result) = 1
    /\ {events[i].level : i \in 1..3} = {LEVELS.DEBUG, LEVELS.INFO, LEVELS.ERROR}
    /\ events[1].time.date # events[3].time.date

\* ---------------------------------------------------------------- claims: store order, threshold
\* C23: in every reachable state the store is a subsequence of the history of added
\* events, in the order they were added: the events carry the numbers of their adds,
\* each at most once, in increasing order.
C23_StoreInInsertionOrder ==
    /\ \A i \in 1..Len(events) : events[i].id \in 1..nextId
    /\ \A i, j \in 1..Len(events) : i < j => events[i].id < events[j].id

\* A removal took the second of three added events out of the store.
C23_Witness ==
    /\ out.removed /\ nextId = 3
    /\ Len(events) = 2 /\ events[1].id = 1 /\ events[2].id = 3

\* C25: getPrintThreshold() returns INFO until a level is accepted, and then the name of
\* the level setPrintThreshold accepted last (DEBUG, INFO, WARN, ERROR or DISABLE);
\* setPrintThreshold with an unrecognized name leaves the threshold unchanged and emits
\* one warn diagnostic.
C25_ThresholdIsLastAccepted ==
    /\ GetPrintThreshold(printThreshold) = "INFO"
    /\ [][IF op'.name = "setPrintThreshold" /\ op'.level \in LevelNames
          THEN GetPrintThreshold(printThreshold') = op'.level
          ELSE /\ GetPrintThreshold(printThreshold') = GetPrintThreshold(printThreshold)
               /\ op'.name = "setPrintThreshold" =>
                    printThreshold' = printThreshold /\ out'.console = <<"warn">>]_vars

\* setPrintThreshold with an unrecognized name was rejected after DISABLE was accepted.
C25_Witness ==
    /\ op.name = "setPrintThreshold" /\ op.level = "FOOBAR"
    /\ out.console = <<"warn">>
    /\ GetPrintThreshold(printThreshold) = "DISABLE"

\* ---------------------------------------------------------------- claims: relay
\* The worker's store, last timestamp and listener registry are the same after the step.
WorkerUntouched(w) ==
    /\ wlog'[w].events = wlog[w].events
    /\ wlog'[w].prevTimestamp = wlog[w].prevTimestamp
    /\ wlog'[w].eventListeners = wlog[w].eventListeners

\* The worker's Log stored the event of the step as a local add does: appended last,
\* the last timestamp set to its time, printed by the threshold rule, each subscribed
\* listener invoked.
WorkerStoredLocally(w) ==
    /\ Len(wlog'[w].events) = Len(wlog[w].events) + 1
    /\ SubSeq(wlog'[w].events, 1, Len(wlog[w].events)) = wlog[w].events
    /\ LET e == wlog'[w].events[Len(wlog'[w].events)] IN
         /\ e.level = LEVELS[op'.level] /\ e.scope = op'.scope
         /\ wlog'[w].prevTimestamp = e.time.date
    /\ out'.console = IF LEVELS[op'.level] >= wlog[w].printThreshold
                       THEN <<ChannelOf[op'.level]>> ELSE <<>>
    /\ Invoked(out') = Subscribed(wlog[w].eventListeners, op'.level)

\* C26: in a worker with separateWorkerScope false, add(level, message, scope, extra),
\* whatever the level, posts one message {action: 'log', level, message, scope, extra} to
\* the parent and has no local effect (store, last timestamp, listener registry
\* unchanged, no listener invoked, nothing printed); with separateWorkerScope true it
\* posts nothing and behaves as a local add.
C26_WorkerAddRedirects ==
    [][op'.name = "workerAdd" =>
         LET w == op'.worker IN
         /\ events' = events /\ eventListeners' = eventListeners
         /\ IF ~wlog[w].separateWorkerScope
            THEN /\ Len(chan'[w]) = Len(chan[w]) + 1
                 /\ SubSeq(chan'[w], 1, Len(chan[w])) = chan[w]
                 /\ LET data == chan'[w][Len(chan'[w])] IN
                      /\ data.action = "log" /\ data.level = op'.level
                      /\ data.scope = op'.scope /\ data.message \in Messages
                      /\ data.extra = NoExtra
                 /\ WorkerUntouched(w)
                 /\ out'.calls = <<>> /\ out'.console = <<>>
            ELSE /\ chan' = chan
                 /\ IF op'.level \in ValidLevels
                    THEN WorkerStoredLocally(w)
                    ELSE WorkerUntouched(w) /\ out'.console = <<"warn">>]_vars

\* A worker that had stored an event locally and holds a listener posted an add with
\* level DISABLE to its parent after separateWorkerScope was set back to false.
C26_Witness ==
    /\ op.name = "workerAdd" /\ op.level = "DISABLE"
    /\ ~wlog["w1"].separateWorkerScope
    /\ wlog["w1"].events # <<>> /\ wlog["w1"].eventListeners # <<>>
    /\ chan["w1"] # <<>> /\ chan["w1"][Len(chan["w1"])].level = "DISABLE"

\* The parent handled the step's message as a local add(level, message, scope, extra)
\* does: a valid level appends one event, prints by the threshold rule and notifies the
\* subscribed listeners; another level leaves the store alone and warns once.
HandledAsLocalAdd ==
    IF op'.level \in ValidLevels
    THEN /\ Len(events') = Len(events) + 1
         /\ SubSeq(events', 1, Len(events)) = events
         /\ events'[Len(events')].level = LEVELS[op'.level]
         /\ events'[Len(events')].scope = op'.scope
         /\ out'.console = IF LEVELS[op'.level] >= printThreshold
                            THEN <<ChannelOf[op'.level]>> ELSE <<>>
         /\ Invoked(out') = Subscribed(eventListeners, op'.level)
    ELSE /\ events' = events
         /\ out'.console = <<"warn">>
         /\ out'.calls = <<>>

\* C27: after registerWorker(w), every {action: 'log', level, message, scope, extra}
\* message delivered from w is replayed into the parent's add() with the same arguments:
\* the parent's store, console output and listener notifications change as for the same
\* add() called locally.
C27_RelayedAsLocalAdd ==
    [][(op'.name = "deliver" /\ op'.action = "log" /\ handlers[op'.worker] > 0)
         => HandledAsLocalAdd]_vars

\* C28: once the parent's handler for worker w has received a {action: 'terminate'}
\* message it is detached, and no message delivered from w while no handler is attached
\* changes the parent's store, console output or listeners.
C28_TerminateDetaches ==
    [][op'.name = "deliver" =>
         /\ (handlers[op'.worker] > 0 /\ op'.action = "terminate" /\ op'.scope = "")
              => handlers'[op'.worker] = 0
         /\ handlers[op'.worker] = 0
              => /\ handlers'[op'.worker] = 0
                 /\ events' = events /\ eventListeners' = eventListeners
                 /\ prevTimestamp' = prevTimestamp
                 /\ out'.console = <<>> /\ out'.calls = <<>>]_vars

\* A valid log message of a worker whose earlier message had been stored was delivered
\* after the handler was detached, and changed nothing.
C28_Witness ==
    /\ op.name = "deliver" /\ op.action = "log" /\ op.level = "INFO" /\ op.scope = "s1"
    /\ handlers["w1"] = 0
    /\ \E i \in 1..Len(events) : events[i].level = LEVELS.INFO
    /\ out.console = <<>>

\* C29: every successful setPrintThreshold(L) sends one
\* {action: 'log-set-print-threshold', level: L} message to every worker passed to
\* registerWorker before; a rejected setPrintThreshold sends none.
C29_ThresholdBroadcast ==
    [][op'.name = "setPrintThreshold" =>
         \A w \in Workers :
            inbox'[w] = IF op'.level \in LevelNames /\ handlers[w] > 0
                        THEN Append(inbox[w], [action |-> "log-set-print-threshold",
                                               level |-> op'.level])
                        ELSE inbox[w]]_vars

\* The position of a text in the order of a worker's calls.
CallNumber(text) == CHOOSE k \in 1..Len(CallTexts) : CallTexts[k] = text

\* C30: the events of two add() calls made in one registered worker are in the parent's
\* store in the order of the calls, under every interleaving with the messages of the
\* other worker and with adds made in the parent.
C30_WorkerOrderKept ==
    \A w \in Workers : \A i, j \in 1..Len(events) :
        (/\ i < j
         /\ events[i].level = LEVELS.INFO /\ events[i].scope = ScopeOfWorker[w]
         /\ events[j].level = LEVELS.INFO /\ events[j].scope = ScopeOfWorker[w])
        => CallNumber(events[i].message) < CallNumber(events[j].message)

\* Both calls of worker w1 are in the store, in order, with an event of the other worker
\* between them.
C30_Witness ==
    /\ Len(events) = 3
    /\ events[1].scope = "s1" /\ events[1].message = "call 1"
    /\ events[2].scope = "s2" /\ events[2].level = LEVELS.INFO
    /\ events[3].scope = "s1" /\ events[3].message = "call 2"

\* ---------------------------------------------------------------- claims: failing listeners
\* C31: if a listener callback throws during a notification (from add, clear or a scoped
\* removal), every other subscription that matches the notification is still invoked,
\* and for clear() and removeScopeEventsBelowLevel the cleared notifications for the
\* remaining levels are still fired.
C31_ThrowingListenerIsolated ==
    [][out'.threw =>
         /\ AcceptedAddStep
              => Range(Subscribed(eventListeners, op'.level)) \subseteq Range(Invoked(out'))
         /\ op'.name = "clear"
              => Range(ClearedCalls(eventListeners, <<"DEBUG", "INFO", "WARN", "ERROR">>))
                   \subseteq Range(CallPairs(out'))
         /\ (op'.name = "removeScopeEventsAtLevel" /\ op'.level \in ValidLevels)
              => Range(ClearedCalls(eventListeners, <<op'.level>>))
                   \subseteq Range(CallPairs(out'))
         /\ (op'.name = "removeScopeEventsBelowLevel" /\ op'.level \in ValidLevels)
              => Range(ClearedCalls(eventListeners, NamesBelow(op'.level)))
                   \subseteq Range(CallPairs(out'))]_vars

\* C32: add (and debug, info, warn, which call it) never raises to its caller, for any
\* level argument and any set of registered listeners, including a listener that throws.
C32_AddNeverRaises == [][op'.name = "add" => ~out'.threw]_vars

\* ---------------------------------------------------------------- claims: sensitive events
\* The messages an observer can read: those of the stored events, by scope and through
\* the export, those handed to listeners and those of a returned array.
ReadableMessages ==
    UNION {{GetScopeEvents(events, scope)[i].message :
              i \in 1..Len(GetScopeEvents(events, scope))} : scope \in Scopes}
    \cup {JsonParse(ExportToJsonOf(events, NoLevel))[i].message : i \in 1..Len(events)}
    \cup {out.calls[k].message : k \in 1..Len(out.calls)}
    \cup (IF op.name = "exportToJson"
          THEN {JsonParse(out.result)[i].message : i \in 1..Len(out.result)}
          ELSE {out.result[i].message : i \in 1..Len(out.result)})

C34_DeltaSinceLastAppend ==
    /\ nextId = 0 => prevTimestamp = Null
    /\ [][IF nextId' = nextId + 1
          THEN LET e == events'[Len(events')] IN
               /\ e.time.delta = (IF nextId = 0 THEN Null ELSE e.time.date - prevTimestamp)
               /\ e.time.date = clock'
               /\ prevTimestamp' = e.time.date
          ELSE prevTimestamp' = prevTimestamp]_vars

\* The second event ever appended is alone in the store, after a clear() at a later
\* clock reading than the first append, with the time since the first append as delta.
C34_Witness ==
    /\ op.name = "add" /\ nextId = 2 /\ Len(events) = 1
    /\ events[1].time.date = 2 /\ events[1].time.delta = 1

\* C35: when a listener is invoked for an added event, the event is already the last
\* element of the store and the last timestamp is already that of the event; when a
\* listener is invoked for a cleared notification (clear, removeScopeEventsAtLevel,
\* removeScopeEventsBelowLevel), every event the operation removes is already out of the
\* store: a listener that reads the store sees the state the operation ends in.
C35_ListenersSeeFinalState ==
    [][\A k \in 1..Len(out'.calls) :
         /\ out'.calls[k].store = [i \in 1..Len(events') |-> events'[i].id]
         /\ out'.calls[k].prev = prevTimestamp'
         /\ AcceptedAddStep =>
              /\ events' # <<>>
              /\ out'.calls[k].id = events'[Len(events')].id
              /\ out'.calls[k].prev = events'[Len(events')].time.date]_vars

\* removeScopeEventsBelowLevel took an event out of a store that keeps another one, and
\* notified a listener.
C35_Witness ==
    /\ op.name = "removeScopeEventsBelowLevel" /\ out.removed
    /\ out.calls # <<>> /\ events # <<>>

\* ---------------------------------------------------------------- claims: relay handler
\* C36: the handler installed by registerWorker calls the parent's add() only for messages
\* whose action is 'log': a delivered message with another action never changes the
\* parent's store or produces a diagnostic, whatever other fields it carries, and a
\* 'terminate' message always detaches the handler.
C36_OnlyLogMessagesAdd ==
    [][(op'.name = "deliver" /\ op'.action # "log" /\ handlers[op'.worker] > 0) =>
         /\ events' = events
         /\ out'.console = <<>> /\ out'.calls = <<>>
         /\ op'.action = "terminate" => handlers'[op'.worker] = 0]_vars

\* C37: registerWorker is idempotent per worker: however many times registerWorker(w)
\* was called, each valid log message delivered from w results in exactly one stored
\* event, one print and one round of listener notifications in the parent.
C37_RegisterWorkerIdempotent ==
    [][(/\ op'.name = "deliver" /\ op'.action = "log" /\ handlers[op'.worker] > 0
        /\ op'.level \in ValidLevels /\ op'.scope \in Scopes) =>
         /\ Len(events') = Len(events) + 1
         /\ Len(out'.console) = (IF LEVELS[op'.level] >= printThreshold THEN 1 ELSE 0)
         /\ Invoked(out') = Subscribed(eventListeners, op'.level)]_vars

\* ---------------------------------------------------------------- claims: timestamp text
\* C38: LogTimestamp.toString(utc) shows the UTC date-time components of the timestamp
\* when utc is true and the local date-time components when utc is false.
C38_ToStringSelectsZone ==
    [][op'.name = "toString" =>
         LET date == events[Len(events)].time.date IN
         out'.result = <<DateTimeText(IF op'.utc THEN UtcComponents(date)
                                      ELSE LocalComponents(date, op'.offset))>>]_vars

====
